---------------------------- MODULE Spec2Model ----------------------------
(***************************************************************************)
(* A model of notion_to_md.py: the NotionToMarkdown converter.            *)
(*                                                                         *)
(* The converter is modelled as a call-stack machine.  Every activation    *)
(* of process_page, extract_page_content and process_block is a frame on   *)
(* `stack`; `ret` is the value the last finished call returned.            *)
(*                                                                         *)
(* Encodings                                                               *)
(*   - a Python str is a sequence of tokens: the characters of the data    *)
(*     (texts, titles, urls, identifiers, format markers) are one token    *)
(*     each, a fixed literal of the source is one token;                   *)
(*   - a dynamically typed JSON value is a tagged record [k, s, v] with    *)
(*     k in {"str", "list", "none", "absent"} ("absent": the key is not    *)
(*     in the dict), s the tokens of a str and v the items of a list;      *)
(*   - a dict whose iteration order matters (the block table, page_data)   *)
(*     is a sequence of entries in insertion order.                        *)
(***************************************************************************)
EXTENDS Integers, Sequences, FiniteSets, TLC

VARIABLES
    single_mode,    \* self.single_mode
    visited_pages,  \* self.visited_pages: the set of urls
    page_data,      \* self.page_data: entries [id, title, parent_id], insertion order
    stack,          \* the activations, the running one last
    ret,            \* what the last finished call returned
    status,         \* "idle" | "running" | "done" | "raised"
    err,            \* the exception that ended the run ("" when none)
    log,            \* the run's events: fetch, skip, write, sleep
    files,          \* the documents written: entries [path, content]
    input,          \* the arguments of the call in progress (entry points)
    calls           \* how many entry-point calls were made on the instance

vars == <<single_mode, visited_pages, page_data, stack, ret, status, err,
          log, files, input, calls>>

-----------------------------------------------------------------------------
(* Bounds of the model *)

\* the longest content list of a crawled page
MaxKids == 2
\* the longest content list of a rendered table (its rows)
MaxRows == 3
\* the most format markers on one rich-text run
MaxFmts == 2
\* the most entry-point calls made on one instance
MaxCalls == 2
\* the most activations the interpreter allows on the stack before it raises
\* RecursionError (sys.getrecursionlimit(), scaled down); no run over the
\* inputs below comes near it unless a block refers to itself or an ancestor
RecursionLimit == 20

-----------------------------------------------------------------------------
(* Python values *)

PStr(s) == [k |-> "str", s |-> s, v |-> <<>>]
PList(l) == [k |-> "list", s |-> <<>>, v |-> l]
PNone == [k |-> "none", s |-> <<>>, v |-> <<>>]
Absent == [k |-> "absent", s |-> <<>>, v |-> <<>>]

\* bool(x)
Truthy(x) == Len(x.s) > 0 \/ Len(x.v) > 0

\* dict.get(name, default) on a properties dict
Get(props, name, default) ==
    IF props[name].k = "absent" THEN default ELSE props[name]

\* f"{x}": str(x) of a str, of None, of an empty list
Fmt(x) ==
    CASE x.k = "str" -> x.s
      [] x.k = "none" -> <<"None">>
      [] OTHER -> <<"[]">>

RECURSIVE JoinFrom(_, _, _)
JoinFrom(strs, sep, i) ==
    IF i > Len(strs) THEN <<>>
    ELSE IF i = Len(strs) THEN strs[i]
    ELSE strs[i] \o sep \o JoinFrom(strs, sep, i + 1)

\* sep.join(strs)
Join(strs, sep) == JoinFrom(strs, sep, 1)

RECURSIVE Repeat(_, _)
\* [x] * n
Repeat(x, n) == IF n <= 0 THEN <<>> ELSE <<x>> \o Repeat(x, n - 1)

NL == <<"\n">>
NLNL == <<"\n", "\n">>

-----------------------------------------------------------------------------
(* Rich text: extract_text_from_property, extract_formatted_text.  The     *)
(* text of a run (item[0]) is a str in every property considered.          *)

RECURSIVE PlainFrom(_, _)
PlainFrom(items, i) ==
    IF i > Len(items) THEN <<>>
    ELSE LET item == items[i]
             piece == IF item.k = "list"
                      THEN (IF Len(item.v) > 0 THEN item.v[1].s ELSE <<>>)
                      ELSE IF item.k = "str" THEN item.s
                      ELSE <<>>
         IN  piece \o PlainFrom(items, i + 1)

extract_text_from_property(property_value) ==
    IF ~Truthy(property_value) THEN <<>>
    ELSE PlainFrom(property_value.v, 1)

\* the backquote character (the lexer does not take it inside a string)
Tick == "BACKQUOTE"

\* one pass of the loop over the formats of a run: text wrapped by fmt
ApplyFormat(text, fmt) ==
    IF fmt.k = "str"
    THEN CASE fmt.s = <<"b">> -> <<"*", "*">> \o text \o <<"*", "*">>
           [] fmt.s = <<"i">> -> <<"*">> \o text \o <<"*">>
           [] fmt.s = <<"s">> -> <<"~", "~">> \o text \o <<"~", "~">>
           [] fmt.s = <<"c">> -> <<Tick>> \o text \o <<Tick>>
           [] OTHER -> text
    ELSE IF fmt.k = "list" /\ Len(fmt.v) > 1
            /\ fmt.v[1].k = "str" /\ fmt.v[1].s = <<"a">>
         THEN <<"[">> \o text \o <<"]", "(">> \o Fmt(fmt.v[2]) \o <<")">>
         ELSE text

RECURSIVE ApplyFormats(_, _, _)
ApplyFormats(text, formats, i) ==
    IF i > Len(formats) THEN text
    ELSE ApplyFormats(ApplyFormat(text, formats[i]), formats, i + 1)

\* FormatRun done wrongly: the formats taken last to first
FormatRunReversed(item) ==
    IF Len(item.v) > 1 /\ item.v[2].k = "list"
    THEN LET f == item.v[2].v
         IN  ApplyFormats(item.v[1].s, [j \in 1..Len(f) |-> f[Len(f) + 1 - j]], 1)
    ELSE item.v[1].s

\* the rendering of one run: for fmt in formats, in the order of the list
FormatRun(item) ==
    IF Len(item.v) > 1 /\ item.v[2].k = "list"
    THEN ApplyFormats(item.v[1].s, item.v[2].v, 1)
    ELSE item.v[1].s

\* fmt[0] of a marker that is an empty list raises IndexError
RunRaises(item) ==
    /\ item.k = "list" /\ Len(item.v) > 1 /\ item.v[2].k = "list"
    /\ \E n \in 1..Len(item.v[2].v) :
          item.v[2].v[n].k = "list" /\ Len(item.v[2].v[n].v) = 0

FormatRaises(property_value) ==
    /\ Truthy(property_value) /\ property_value.k = "list"
    /\ \E n \in 1..Len(property_value.v) : RunRaises(property_value.v[n])

RECURSIVE FormattedFrom(_, _)
FormattedFrom(items, i) ==
    IF i > Len(items) THEN <<>>
    ELSE LET item == items[i]
             piece == IF item.k = "list" /\ Len(item.v) >= 1
                      THEN FormatRun(item)
                      ELSE <<>>
         IN  piece \o FormattedFrom(items, i + 1)

extract_formatted_text(property_value) ==
    IF ~Truthy(property_value) THEN <<>>
    ELSE FormattedFrom(property_value.v, 1)

-----------------------------------------------------------------------------
(* The block table: data['recordMap']['block'], entries [id, data] in the  *)
(* order of the JSON object.  A block_data has the key "value" or not      *)
(* (hasValue); otype is block_data['value'].get('type'), spaceId is        *)
(* block_data.get('spaceId'); the other fields are those of the block      *)
(* block_data['value']['value'] ({} when the key is missing).              *)

NoProps == [title |-> Absent, language |-> Absent, source |-> Absent,
            caption |-> Absent, description |-> Absent]

\* blocks[id]['value'].get('value', {}) of a block_data without "value"
NoBlock == [hasValue |-> FALSE, otype |-> "none", spaceId |-> <<>>,
            type |-> "none", properties |-> NoProps, content |-> <<>>,
            checked |-> FALSE, link |-> <<>>]

\* block_id in blocks
Has(blocks, id) == \E n \in 1..Len(blocks) : blocks[n].id = id

\* blocks[block_id]
At(blocks, id) == blocks[CHOOSE n \in 1..Len(blocks) : blocks[n].id = id].data

\* blocks.get(id, {}).get('value', {}).get('value', {})
Inner(blocks, id) ==
    IF Has(blocks, id) /\ At(blocks, id).hasValue THEN At(blocks, id) ELSE NoBlock

\* str.replace('-', '')
StripDash(s) == SelectSeq(s, LAMBDA c : c # "-")

\* quote(string, safe=''): the reserved characters percent-encoded
QuoteChar(c) ==
    CASE c = "/" -> <<"%", "2", "F">>
      [] c = ":" -> <<"%", "3", "A">>
      [] c = " " -> <<"%", "2", "0">>
      [] OTHER -> <<c>>

RECURSIVE QuoteFrom(_, _)
QuoteFrom(s, i) ==
    IF i > Len(s) THEN <<>> ELSE QuoteChar(s[i]) \o QuoteFrom(s, i + 1)

Quote(s) == QuoteFrom(s, 1)

\* slugify(name, allow_unicode=True): lower case, blanks to hyphens
SlugChar(c) ==
    CASE c = "A" -> <<"a">>
      [] c = "B" -> <<"b">>
      [] c = "C" -> <<"c">>
      [] c = "D" -> <<"d">>
      [] c = "U" -> <<"u">>
      [] c = " " -> <<"-">>
      [] c = "*" -> <<>>
      [] c = "Untitled" -> <<"untitled">>
      [] OTHER -> <<c>>

RECURSIVE SlugFrom(_, _)
SlugFrom(s, i) ==
    IF i > Len(s) THEN <<>> ELSE SlugChar(s[i]) \o SlugFrom(s, i + 1)

sanitize_filename(name) == SlugFrom(name, 1)

-----------------------------------------------------------------------------
(* process_block: the block types that are rendered without a further      *)
(* call of process_block or process_page.                                  *)

Title(block) == extract_formatted_text(Get(block.properties, "title", PList(<<>>)))

RECURSIVE Unwrap(_)
\* while x and type(x) == list: x = x[0] if len(x) > 0 else None
Unwrap(x) == IF x.k = "list" /\ Len(x.v) > 0 THEN Unwrap(x.v[1]) ELSE x

ImageSource(block) == Unwrap(Get(block.properties, "source", PList(<<>>)))
ImageCaption(block) == Unwrap(Get(block.properties, "caption", PList(<<>>)))

\* quote(source, '') raises TypeError unless source is a str
ImageRaises(block) == block.type = "image" /\ ImageSource(block).k # "str"

ImageLines(block, block_id, blocks, root_page_id) ==
    LET caption == ImageCaption(block)
        space_id == IF Has(blocks, root_page_id)
                    THEN At(blocks, root_page_id).spaceId ELSE <<>>
        source == <<"https://mask.notion.site/image/">>
                  \o Quote(ImageSource(block).s)
                  \o <<"?table=block&id=">> \o block_id
                  \o <<"&spaceId=">> \o space_id
                  \o <<"&width=1420&userId=&cache=v2">>
    IN  <<(<<"![">> \o Fmt(caption) \o <<"](">> \o source \o <<")">>)>>
        \o (IF Truthy(caption)
            THEN <<(<<"*">> \o Fmt(caption) \o <<"*">>)>>
            ELSE <<>>)

BookmarkLines(block) ==
    LET title == Title(block)
        description == extract_formatted_text(
                           Get(block.properties, "description", PList(<<>>)))
    IN  IF Len(block.link) > 0
        THEN <<(<<"[">> \o (IF Len(title) > 0 THEN title ELSE block.link)
                \o <<"](">> \o block.link \o <<")">>)>>
             \o (IF Len(description) > 0
                 THEN <<(<<"> ">> \o description)>> ELSE <<>>)
        ELSE <<>>

\* str.lower()
LowerChar(c) ==
    CASE c = "P" -> "p"
      [] c = "Y" -> "y"
      [] OTHER -> c

Lower(s) == [n \in 1..Len(s) |-> LowerChar(s[n])]

CodeLines(block) ==
    LET code == extract_text_from_property(
                    Get(block.properties, "title", PList(<<>>)))
        language == extract_text_from_property(
                        Get(block.properties, "language", PList(<<>>)))
    IN  <<(<<Tick, Tick, Tick>> \o Lower(language) \o NL \o code \o NL
           \o <<Tick, Tick, Tick>>)>>

RECURSIVE RowCellsFrom(_, _, _)
\* the cells of one row: the title of every cell id found in blocks
RowCellsFrom(blocks, row_content_ids, i) ==
    IF i > Len(row_content_ids) THEN <<>>
    ELSE (IF Has(blocks, row_content_ids[i])
          THEN <<Title(Inner(blocks, row_content_ids[i]))>>
          ELSE <<>>)
         \o RowCellsFrom(blocks, row_content_ids, i + 1)

\* if not header_row and row_cells: header_row = row_cells
\* else: table_rows.append(row_cells)
TableStep(t, row_cells) ==
    IF Len(t.header_row) = 0 /\ Len(row_cells) > 0
    THEN [header_row |-> row_cells, table_rows |-> t.table_rows]
    ELSE [header_row |-> t.header_row,
          table_rows |-> Append(t.table_rows, row_cells)]

RECURSIVE TableScan(_, _, _, _)
\* the loop over the rows of a table block
TableScan(blocks, block_content_ids, i, t) ==
    IF i > Len(block_content_ids) THEN t
    ELSE IF Has(blocks, block_content_ids[i])
    THEN TableScan(blocks, block_content_ids, i + 1,
             TableStep(t, RowCellsFrom(blocks,
                 Inner(blocks, block_content_ids[i]).content, 1)))
    ELSE TableScan(blocks, block_content_ids, i + 1, t)

\* while len(row) < len(header_row): append an empty cell to row
PadRow(row, n) == row \o Repeat(<<>>, n - Len(row))

TableMd(t) ==
    IF Len(t.header_row) > 0
    THEN <<Join(<<Join(t.header_row, <<" | ">>),
                  Join(Repeat(<<"---">>, Len(t.header_row)), <<" | ">>)>>
                \o [r \in 1..Len(t.table_rows) |->
                      Join(PadRow(t.table_rows[r], Len(t.header_row)), <<" | ">>)],
                NL)>>
    ELSE <<>>

TableLines(block, blocks) ==
    TableMd(TableScan(blocks, block.content, 1,
                      [header_row |-> <<>>, table_rows |-> <<>>]))

\* the link a page block leaves in multi-file mode
PageLink(page_title) ==
    <<"[">> \o page_title \o <<"](./">> \o sanitize_filename(page_title)
    \o <<"/">> \o sanitize_filename(page_title) \o <<".md)">>

\* the content list of a block that makes no further call
LeafLines(block, block_id, blocks, root_page_id) ==
    CASE block.type = "text" -> <<Title(block)>>
      [] block.type = "header" -> <<(<<"# ">> \o Title(block))>>
      [] block.type = "sub_header" -> <<(<<"## ">> \o Title(block))>>
      [] block.type = "sub_sub_header" -> <<(<<"### ">> \o Title(block))>>
      [] block.type = "bulleted_list" -> <<(<<"- ">> \o Title(block))>>
      [] block.type = "numbered_list" -> <<(<<"1. ">> \o Title(block))>>
      [] block.type = "to_do" ->
            <<((IF block.checked THEN <<"[x]">> ELSE <<"[ ]">>)
               \o <<" ">> \o Title(block))>>
      [] block.type \in {"callout", "quote"} -> <<(<<"> ">> \o Title(block))>>
      [] block.type = "divider" -> <<(<<"---">>)>>
      [] block.type = "code" -> CodeLines(block)
      [] block.type = "image" -> ImageLines(block, block_id, blocks, root_page_id)
      [] block.type = "bookmark" -> BookmarkLines(block)
      [] block.type = "table" -> TableLines(block, blocks)
      [] OTHER -> <<>>

-----------------------------------------------------------------------------
(* Activations and values returned *)

NoData == [hasRecordMap |-> FALSE, hasBlock |-> FALSE, pageId |-> <<>>,
           blocks |-> <<>>]
NoContent == [title |-> <<>>, content |-> <<>>, subpages |-> <<>>]

\* None, also the value of `ret` before any call has returned
\* (one field for each type of value a call returns)
RetNone ==
    [t |-> "none", content |-> NoContent, pages |-> <<>>, lines |-> <<>>,
     str |-> <<>>]
RetPages(v) == [RetNone EXCEPT !.t = "pages", !.pages = v]
RetContent(v) == [RetNone EXCEPT !.t = "content", !.content = v]
RetLines(v) == [RetNone EXCEPT !.t = "lines", !.lines = v]
RetStr(v) == [RetNone EXCEPT !.t = "str", !.str = v]

PageFrame(url, parent_path, save_content, recursive) ==
    [fn |-> "process_page", pc |-> "enter", url |-> url,
     parent_path |-> parent_path, save_content |-> save_content,
     recursive |-> recursive, response |-> "", data |-> NoData,
     page_content |-> NoContent,
     page_title |-> <<>>, safe_title |-> <<>>, i |-> 1, pages_content |-> <<>>]

ExtractFrame(url, data) ==
    [fn |-> "extract_page_content", pc |-> "enter", url |-> url, data |-> data,
     root_page_id |-> <<>>, title |-> <<>>, content_ids |-> <<>>, i |-> 1,
     content |-> <<>>]

BlockFrame(url, root_page_id, blocks, block_id) ==
    [fn |-> "process_block", pc |-> "enter", url |-> url,
     root_page_id |-> root_page_id, blocks |-> blocks, block_id |-> block_id,
     i |-> 1, acc |-> <<>>]

Top == stack[Len(stack)]

\* the running activation is at `pc` of `fn`
At_(fn, pc) ==
    status = "running" /\ Len(stack) > 0 /\ Top.fn = fn /\ Top.pc = pc

\* the stack with its running activation replaced
Goto(frame) == [stack EXCEPT ![Len(stack)] = frame]

\* the stack after the running activation, moved on to `frame`, calls `callee`
Call(frame, callee) == Append(Goto(frame), callee)

\* the stack after the running activation returns
Popped == SubSeq(stack, 1, Len(stack) - 1)

\* how many activations of process_page are on the stack
PageDepth == Cardinality({n \in 1..Len(stack) : stack[n].fn = "process_page"})

Event(e, url, path) == [e |-> e, url |-> url, path |-> path, depth |-> PageDepth]

\* f"{domain}/{title}-{id.replace('-', '')}": the path of the url; the domain
\* is that of the start url in every url of a run
SubpageUrl(title, id) == title \o <<"-">> \o StripDash(id)

\* os.path.join(a, b), a path being the sequence of its components
PathJoin(a, b) == IF Len(b) = 0 THEN a ELSE Append(a, b)

\* self.page_data[page_id] = {'title': ..., 'parent_id': ...}
SetPage(pd, id, title, parent_id) ==
    LET entry == [id |-> id, title |-> title, parent_id |-> parent_id]
    IN  IF \E n \in 1..Len(pd) : pd[n].id = id
        THEN [n \in 1..Len(pd) |-> IF pd[n].id = id THEN entry ELSE pd[n]]
        ELSE Append(pd, entry)

\* [key for key in self.page_data]
Keys(pd) == [n \in 1..Len(pd) |-> pd[n].id]

-----------------------------------------------------------------------------
(* The site that is crawled (the environment of process_page): a few pages *)
(* that refer to each other, in any way, as subpages.                      *)

Pid(c) == <<"p", "-", c>>
StartId == Pid("a")
PageIds == {Pid("a"), Pid("b"), Pid("c"), Pid("d")}

TitleOf(id) ==
    CASE id = Pid("a") -> <<"A">>
      [] id = Pid("b") -> <<"B">>
      [] id = Pid("c") -> <<"C">>
      [] OTHER -> <<"D">>

\* a title property of one unformatted run
TitleProp(text) == PList(<<PList(<<PStr(text)>>)>>)

Block(type, title, content) ==
    [NoBlock EXCEPT !.hasValue = TRUE, !.type = type, !.content = content,
                    !.properties = [NoProps EXCEPT !.title = title]]

PageBlock(id, content) == Block("page", TitleProp(TitleOf(id)), content)

ToggleId == <<"t", "g">>
ImageId == <<"i", "m">>

\* the pages a page may refer to as subpages: a page shared by two parents
\* (d), references back to an ancestor (b to a, c to b), a page that refers
\* to itself (d)
Links(p) ==
    CASE p = Pid("a") -> {Pid("b"), Pid("c"), Pid("d")}
      [] p = Pid("b") -> {Pid("d"), Pid("a")}
      [] p = Pid("c") -> {Pid("d"), Pid("b")}
      [] OTHER -> {Pid("d"), Pid("c")}

\* the content lists of page p: up to MaxKids different subpages, in any order
KidLists(p) ==
    UNION {{ks \in [1..n -> Links(p)] :
               \A a, b \in 1..n : a # b => ks[a] # ks[b]} : n \in 0..MaxKids}

\* the page blocks of the subpages, as they stand in the parent's block table
KidEntries(p, kids) ==
    LET ks == SelectSeq(kids, LAMBDA k : k # p)
    IN  [n \in 1..Len(ks) |-> [id |-> ks[n], data |-> PageBlock(ks[n], <<>>)]]

Payload(pageId, blocks) ==
    [hasRecordMap |-> TRUE, hasBlock |-> TRUE, pageId |-> pageId,
     blocks |-> blocks]

\* page p with its subpages listed in its content
FlatPage(p, kids) ==
    Payload(p, <<[id |-> p, data |-> PageBlock(p, kids)]>> \o KidEntries(p, kids))

\* page p with its subpages inside a toggle
ToggledPage(p, kids) ==
    Payload(p, <<[id |-> p, data |-> PageBlock(p, <<ToggleId>>)],
                 [id |-> ToggleId,
                  data |-> Block("toggle", TitleProp(<<"T">>), kids)]>>
               \o KidEntries(p, kids))

\* page p holding an image block that has no source
ImagePage(p) ==
    Payload(p, <<[id |-> p, data |-> PageBlock(p, <<ImageId>>)],
                 [id |-> ImageId, data |-> Block("image", Absent, <<>>)]>>)

\* a payload whose pageId names no block
DanglingPage == Payload(<<"x">>, <<>>)

\* page p with an empty content list, whose block table also holds the page
\* block s: the record map carries blocks that the content does not list
StrayPage(p, s) ==
    Payload(p, <<[id |-> p, data |-> PageBlock(p, <<>>)],
                 [id |-> s, data |-> PageBlock(s, <<>>)]>>)

PagePayloads(p) ==
    {FlatPage(p, kids) : kids \in KidLists(p)}
    \cup {ToggledPage(p, kids) : kids \in {ks \in KidLists(p) : Len(ks) = 1}}
    \cup {StrayPage(p, s) : s \in Links(p) \ {p}}
    \cup {ImagePage(p), DanglingPage}

\* the pages the site serves at a url
Serve(url) == {p \in PageIds : SubpageUrl(TitleOf(p), p) = url}

\* what download_page and extract_json_data can give for a url: no document
\* (the retries are used up), a document without the JSON, or a payload
Responses(url) ==
    {[kind |-> "none", data |-> NoData], [kind |-> "nojson", data |-> NoData],
     [kind |-> "data", data |-> NoData]}
    \cup {[kind |-> "data", data |-> d] : d \in UNION {PagePayloads(p) : p \in Serve(url)}}

StartUrl == SubpageUrl(TitleOf(StartId), StartId)
OutputDir == <<<<"out">>>>

-----------------------------------------------------------------------------
(* process_page *)

\* Visited done wrongly: the visited set is never consulted
VisitedNever(url) == FALSE

\* if url in self.visited_pages
Visited(url) == url \in visited_pages

\* PageFails done wrongly: a failed page raises
PageFailsRaising ==
    /\ status' = "raised"
    /\ err' = "PageFailure"
    /\ log' = Append(log, Event("failed", Top.url, <<>>))
    /\ UNCHANGED <<stack, ret>>

\* logging.error(...); return [] after a failed download, a missing payload,
\* a failed extraction
PageFails ==
    /\ stack' = Popped
    /\ ret' = RetPages(<<>>)
    /\ log' = Append(log, Event("failed", Top.url, <<>>))
    /\ UNCHANGED <<status, err>>

\* the guard of the visited set, and the mark
PP_Enter ==
    /\ At_("process_page", "enter")
    /\ IF Visited(Top.url)
       THEN /\ stack' = Popped
            /\ ret' = RetPages(<<>>)
            /\ log' = Append(log, Event("skip", Top.url, <<>>))
            /\ UNCHANGED visited_pages
       ELSE /\ visited_pages' = visited_pages \cup {Top.url}
            /\ stack' = Goto([Top EXCEPT !.pc = "download"])
            /\ UNCHANGED <<ret, log>>
    /\ UNCHANGED <<single_mode, page_data, status, err, files, input, calls>>

\* download_page(url) and extract_json_data(html_content): what they give
PP_Download ==
    /\ At_("process_page", "download")
    /\ log' = Append(log, Event("fetch", Top.url, <<>>))
    /\ \E r \in Responses(Top.url) :
          stack' = Goto([Top EXCEPT !.pc = "downloaded", !.response = r.kind,
                                    !.data = r.data])
    /\ UNCHANGED <<single_mode, visited_pages, page_data, ret, status, err,
                   files, input, calls>>

\* if not html_content / if not data: the page fails; else extract_page_content
PP_Parsed ==
    /\ At_("process_page", "downloaded")
    /\ IF Top.response \in {"none", "nojson"}
       THEN PageFails
       ELSE /\ stack' = Call([Top EXCEPT !.pc = "extracted"],
                             ExtractFrame(Top.url, Top.data))
            /\ UNCHANGED <<ret, status, err, log>>
    /\ UNCHANGED <<single_mode, visited_pages, page_data, files, input, calls>>

\* extract_page_content has returned: the title and the directory name
PP_Extracted ==
    /\ At_("process_page", "extracted")
    /\ IF ret.t = "none"
       THEN PageFails
       ELSE LET page_title == IF Len(ret.content.title) > 0 THEN ret.content.title
                              ELSE <<"Untitled">>
            IN  /\ stack' = Goto([Top EXCEPT !.pc = "save",
                                     !.page_content = ret.content,
                                     !.page_title = page_title,
                                     !.safe_title = sanitize_filename(page_title)])
                /\ UNCHANGED <<ret, status, err, log>>
    /\ UNCHANGED <<single_mode, visited_pages, page_data, files, input, calls>>

\* os.path.join(self.output_dir, parent_path, safe_title)
PageDir(frame) == PathJoin(OutputDir \o frame.parent_path, frame.safe_title)

MdFilePath(frame) == Append(PageDir(frame), frame.safe_title \o <<".md">>)

\* what is written to the file
Document(frame) ==
    <<"# ">> \o frame.page_title \o NLNL \o frame.page_content.content

\* open(md_file_path, 'w') and the writes: the file is replaced
Written(fs, path, content) ==
    {f \in fs : f.path # path} \cup {[path |-> path, content |-> content]}

\* if save_content: the directory and the file, or the OSError of either
PP_Save ==
    /\ At_("process_page", "save")
    /\ IF Top.save_content
       THEN \E ok \in BOOLEAN :
               IF ok
               THEN /\ files' = Written(files, MdFilePath(Top), Document(Top))
                    /\ log' = Append(log, Event("write", Top.url, MdFilePath(Top)))
                    /\ stack' = Goto([Top EXCEPT !.pc = "loop",
                                         !.pages_content = <<Top.page_content>>])
                    /\ UNCHANGED <<status, err>>
               ELSE /\ status' = "raised"
                    /\ err' = "OSError"
                    /\ UNCHANGED <<files, log, stack>>
       ELSE /\ stack' = Goto([Top EXCEPT !.pc = "loop",
                                 !.pages_content = <<Top.page_content>>])
            /\ UNCHANGED <<files, log, status, err>>
    /\ UNCHANGED <<single_mode, visited_pages, page_data, ret, input, calls>>

\* the url of subpage sid, from its block in the payload of the page
LoopUrl(frame, sid) ==
    SubpageUrl(extract_text_from_property(
                   Get(Inner(frame.data.blocks, sid).properties, "title",
                       PList(<<>>))),
               sid)

\* if recursive: the next subpage id, and the recursive call; return at the end
PP_Loop ==
    /\ At_("process_page", "loop")
    /\ LET subpages == Top.page_content.subpages
       IN  IF Top.recursive /\ Top.i <= Len(subpages)
           THEN IF Has(Top.data.blocks, subpages[Top.i])
                THEN /\ stack' = Call([Top EXCEPT !.pc = "sleep"],
                                      PageFrame(LoopUrl(Top, subpages[Top.i]),
                                                PathJoin(Top.parent_path,
                                                         Top.safe_title),
                                                Top.save_content, TRUE))
                     /\ ret' = ret
                ELSE /\ stack' = Goto([Top EXCEPT !.i = Top.i + 1])
                     /\ ret' = ret
           ELSE /\ stack' = Popped
                /\ ret' = RetPages(Top.pages_content)
    /\ UNCHANGED <<single_mode, visited_pages, page_data, status, err, log,
                   files, input, calls>>

\* the recursive call has returned: pages_content += ..., time.sleep
PP_Sleep ==
    /\ At_("process_page", "sleep")
    /\ stack' = Goto([Top EXCEPT !.pc = "loop", !.i = Top.i + 1,
                         !.pages_content = Top.pages_content \o ret.pages])
    /\ log' = Append(log, Event("sleep", Top.url, <<>>))
    /\ UNCHANGED <<single_mode, visited_pages, page_data, ret, status, err,
                   files, input, calls>>

\* main: process_page has returned, the conversion is complete
Main_Finish ==
    /\ status = "running"
    /\ input.op = "main"
    /\ stack = <<>>
    /\ status' = "done"
    /\ UNCHANGED <<single_mode, visited_pages, page_data, stack, ret, err, log,
                   files, input, calls>>

-----------------------------------------------------------------------------
(* extract_page_content *)

\* the first block, in the order of the table, whose block_data['value']
\* has type 'page' (0 when there is none)
FirstPageTyped(blocks) ==
    LET hits == {n \in 1..Len(blocks) :
                    blocks[n].data.hasValue /\ blocks[n].data.otype = "page"}
    IN  IF hits = {} THEN 0 ELSE CHOOSE n \in hits : \A m \in hits : n <= m

\* root_page_id: data.get('pageId'), or the block the scan finds
RootPageId(data) ==
    IF Len(data.pageId) = 0 \/ ~Has(data.blocks, data.pageId)
    THEN IF FirstPageTyped(data.blocks) > 0
         THEN data.blocks[FirstPageTyped(data.blocks)].id
         ELSE data.pageId
    ELSE data.pageId

\* 'subpages': [key for key in self.page_data]
Subpages(pd) == Keys(pd)

\* the checks of the payload and the root block
EPC_Enter ==
    /\ At_("extract_page_content", "enter")
    /\ LET data == Top.data
           root_page_id == RootPageId(data)
           root_block == Inner(data.blocks, root_page_id)
       IN  IF ~data.hasRecordMap \/ ~data.hasBlock \/ Len(root_page_id) = 0
           THEN /\ stack' = Popped
                /\ ret' = RetNone
           ELSE /\ stack' = Goto([Top EXCEPT
                        !.pc = "loop",
                        !.root_page_id = root_page_id,
                        !.title = extract_text_from_property(
                                      Get(root_block.properties, "title",
                                          PList(<<>>))),
                        !.content_ids = root_block.content])
                /\ ret' = ret
    /\ UNCHANGED <<single_mode, visited_pages, page_data, status, err, log,
                   files, input, calls>>

\* for block_id in content_ids: the call of process_block; the result at the end
EPC_Loop ==
    /\ At_("extract_page_content", "loop")
    /\ IF Top.i <= Len(Top.content_ids)
       THEN IF Has(Top.data.blocks, Top.content_ids[Top.i])
            THEN /\ stack' = Call([Top EXCEPT !.pc = "resume"],
                                  BlockFrame(Top.url, Top.root_page_id,
                                             Top.data.blocks,
                                             Top.content_ids[Top.i]))
                 /\ ret' = ret
            ELSE /\ stack' = Goto([Top EXCEPT !.i = Top.i + 1])
                 /\ ret' = ret
       ELSE /\ stack' = Popped
            /\ ret' = RetContent([title |-> Top.title,
                                  content |-> Join(Top.content, NLNL),
                                  subpages |-> Subpages(page_data)])
    /\ UNCHANGED <<single_mode, visited_pages, page_data, status, err, log,
                   files, input, calls>>

\* content += the lines process_block returned
EPC_Resume ==
    /\ At_("extract_page_content", "resume")
    /\ stack' = Goto([Top EXCEPT !.pc = "loop", !.i = Top.i + 1,
                         !.content = Top.content \o ret.lines])
    /\ UNCHANGED <<single_mode, visited_pages, page_data, ret, status, err,
                   log, files, input, calls>>

-----------------------------------------------------------------------------
(* process_block *)

Container(block) == block.type \in {"toggle", "column_list", "column"}

\* the content of a toggle, of a column_list or column, once its children are
\* rendered
ContainerLines(block, acc) ==
    IF block.type = "toggle"
    THEN <<(<<"<details>", "\n", "<summary>">> \o Title(block)
            \o <<"</summary>", "\n", "\n">> \o Join(acc, NLNL)
            \o <<"\n", "</details>">>)>>
    ELSE IF Len(acc) > 0 THEN <<Join(acc, NLNL)>> ELSE <<>>

\* the dispatch on the block type
PB_Enter ==
    /\ At_("process_block", "enter")
    /\ LET block == At(Top.blocks, Top.block_id)
       IN  IF ~block.hasValue
           THEN /\ stack' = Popped
                /\ ret' = RetLines(<<>>)
                /\ UNCHANGED <<page_data, status, err>>
           ELSE IF Container(block)
           THEN /\ stack' = Goto([Top EXCEPT !.pc = "children"])
                /\ UNCHANGED <<ret, page_data, status, err>>
           ELSE IF block.type = "page" /\ single_mode
           THEN /\ stack' = Call([Top EXCEPT !.pc = "inlined"],
                                 PageFrame(SubpageUrl(Title(block), Top.block_id),
                                           <<>>, FALSE, FALSE))
                /\ UNCHANGED <<ret, page_data, status, err>>
           ELSE IF block.type = "page"
           THEN /\ stack' = Popped
                /\ ret' = RetLines(<<PageLink(Title(block))>>)
                /\ page_data' = SetPage(page_data, Top.block_id, Title(block),
                                        Top.root_page_id)
                /\ UNCHANGED <<status, err>>
           ELSE IF ImageRaises(block)
           THEN /\ status' = "raised"
                /\ err' = "TypeError"
                /\ UNCHANGED <<stack, ret, page_data>>
           ELSE /\ stack' = Popped
                /\ ret' = RetLines(LeafLines(block, Top.block_id, Top.blocks,
                                             Top.root_page_id))
                /\ UNCHANGED <<page_data, status, err>>
    /\ UNCHANGED <<single_mode, visited_pages, log, files, input, calls>>

\* for child_id in block_content_ids: the recursive call; the result at the end
PB_Children ==
    /\ At_("process_block", "children")
    /\ LET block == At(Top.blocks, Top.block_id)
       IN  IF Top.i <= Len(block.content)
           THEN IF Has(Top.blocks, block.content[Top.i])
                THEN IF Len(stack) >= RecursionLimit
                     THEN /\ status' = "raised"
                          /\ err' = "RecursionError"
                          /\ UNCHANGED <<stack, ret>>
                     ELSE /\ stack' = Call([Top EXCEPT !.pc = "child"],
                                           BlockFrame(Top.url, Top.root_page_id,
                                                      Top.blocks,
                                                      block.content[Top.i]))
                          /\ UNCHANGED <<ret, status, err>>
                ELSE /\ stack' = Goto([Top EXCEPT !.i = Top.i + 1])
                     /\ UNCHANGED <<ret, status, err>>
           ELSE /\ stack' = Popped
                /\ ret' = RetLines(ContainerLines(block, Top.acc))
                /\ UNCHANGED <<status, err>>
    /\ UNCHANGED <<single_mode, visited_pages, page_data, log, files, input,
                   calls>>

\* toggle_content += / column_content += the lines of the child
PB_Child ==
    /\ At_("process_block", "child")
    /\ stack' = Goto([Top EXCEPT !.pc = "children", !.i = Top.i + 1,
                         !.acc = Top.acc \o ret.lines])
    /\ UNCHANGED <<single_mode, visited_pages, page_data, ret, status, err,
                   log, files, input, calls>>

\* single mode: process_page has returned for the subpage of a page block
InlinedLinesAlways(block, pages_content) ==
    <<(<<"# ">> \o Title(block)),
      (IF Len(pages_content) > 0 THEN pages_content[1].content ELSE <<>>)>>

\* if len(pages_content) > 0: the heading and the body of the subpage
InlinedLines(block, pages_content) ==
    IF Len(pages_content) > 0
    THEN <<(<<"# ">> \o Title(block)), pages_content[1].content>>
    ELSE <<>>

PB_Inlined ==
    /\ At_("process_block", "inlined")
    /\ LET block == At(Top.blocks, Top.block_id)
           pages_content == ret.pages
       IN  /\ stack' = Popped
           /\ ret' = RetLines(InlinedLines(block, pages_content))
           /\ page_data' = SetPage(page_data, Top.block_id, Title(block),
                                   Top.root_page_id)
    /\ UNCHANGED <<single_mode, visited_pages, status, err, log, files, input,
                   calls>>

-----------------------------------------------------------------------------
(* A run of main: the instance is constructed, process_page is called on   *)
(* the start url with recursive = not args.single.                         *)

NoInput == [op |-> "main", data |-> NoData, pv |-> PNone]

Init ==
    /\ single_mode \in BOOLEAN
    /\ visited_pages = {}
    /\ page_data = <<>>
    /\ stack = <<PageFrame(StartUrl, <<>>, TRUE, ~single_mode)>>
    /\ ret = RetNone
    /\ status = "running"
    /\ err = ""
    /\ log = <<>>
    /\ files = {}
    /\ input = NoInput
    /\ calls = 0

Next ==
    \/ PP_Enter
    \/ PP_Download
    \/ PP_Parsed
    \/ PP_Extracted
    \/ PP_Save
    \/ PP_Loop
    \/ PP_Sleep
    \/ EPC_Enter
    \/ EPC_Loop
    \/ EPC_Resume
    \/ PB_Enter
    \/ PB_Children
    \/ PB_Child
    \/ PB_Inlined
    \/ Main_Finish

Spec == Init /\ [][Next]_vars

\* the run of main goes on while it can: the interpreter executes the next
\* statement, and every fetch returns (download_page has a timeout and a
\* bounded number of retries)
SpecLive == Init /\ [][Next]_vars /\ WF_vars(Next)

-----------------------------------------------------------------------------
(* The methods called one by one on an instance in multi-file mode:        *)
(* extract_page_content on a payload, extract_formatted_text on a property *)
(* value.  The payloads hold every block type, with and without its        *)
(* properties, tables of every row sequence, images of every source and    *)
(* caption shape, and the root block given or not.                         *)

Id(a, b) == <<a, b>>
RootId == Id("r", "t")

\* a payload whose root block rt has the given content, beside the blocks
OnePage(content, blocks) ==
    Payload(RootId,
            <<[id |-> RootId,
               data |-> Block("page", TitleProp(<<"A">>), content)]>> \o blocks)

\* the rows of the tables: no cell, one cell, two cells, one cell id that is
\* not in the table; Id("r", "m") is a row id that is not in the table
RowIds == {Id("r", "0"), Id("r", "1"), Id("r", "2"), Id("r", "x"), Id("r", "m")}

TableBlocks(rows) ==
    <<[id |-> Id("t", "b"), data |-> Block("table", Absent, rows)],
      [id |-> Id("r", "0"), data |-> Block("table_row", Absent, <<>>)],
      [id |-> Id("r", "1"), data |-> Block("table_row", Absent, <<Id("c", "1")>>)],
      [id |-> Id("r", "2"),
       data |-> Block("table_row", Absent, <<Id("c", "1"), Id("c", "2")>>)],
      [id |-> Id("r", "x"), data |-> Block("table_row", Absent, <<Id("z", "z")>>)],
      [id |-> Id("c", "1"), data |-> Block("text", TitleProp(<<"x">>), <<>>)],
      [id |-> Id("c", "2"), data |-> Block("text", TitleProp(<<"y">>), <<>>)]>>

TablePayloads ==
    {OnePage(<<Id("t", "b")>>, TableBlocks(rows)) :
        rows \in UNION {[1..n -> RowIds] : n \in 0..MaxRows}}

ImageUrl == <<"h", ":", "/", "u">>

SourceShapes ==
    {Absent, PNone, PList(<<>>), PList(<<PList(<<>>)>>), PStr(ImageUrl),
     PList(<<PList(<<PStr(ImageUrl)>>)>>)}

CaptionShapes == {Absent, PList(<<>>), PList(<<PList(<<PStr(<<"c">>)>>)>>)}

ImagePayloads ==
    {OnePage(<<Id("i", "m")>>,
             <<[id |-> Id("i", "m"),
                data |-> [Block("image", Absent, <<>>) EXCEPT
                             !.properties.source = src,
                             !.properties.caption = cap]]>>) :
        src \in SourceShapes, cap \in CaptionShapes}

BlockTypes ==
    {"text", "header", "sub_header", "sub_sub_header", "bulleted_list",
     "numbered_list", "to_do", "toggle", "callout", "quote", "divider", "code",
     "bookmark", "table", "page", "column_list", "column", "table_row",
     "embed"}

\* one block of each type: its properties absent or given, its content empty
\* or a text block and an id that is not in the table
TypedPayloads ==
    {OnePage(<<Id("b", "1"), Id("h", "1")>>,
             <<[id |-> Id("b", "1"),
                data |-> [Block(type, title, content) EXCEPT
                             !.properties.language =
                                 IF title = Absent THEN Absent
                                 ELSE TitleProp(<<"P", "Y">>),
                             !.properties.description = title,
                             !.checked = (title # Absent),
                             !.link = IF title = Absent THEN <<>> ELSE ImageUrl]],
               [id |-> Id("h", "1"),
                data |-> Block("header", TitleProp(<<"I">>), <<>>)],
               [id |-> Id("t", "1"),
                data |-> Block("text", TitleProp(<<"W">>), <<>>)],
               [id |-> Id("n", "v"), data |-> NoBlock]>>) :
        type \in BlockTypes,
        title \in {Absent, TitleProp(<<"t">>)},
        content \in {<<>>, <<Id("t", "1"), Id("z", "z"), Id("n", "v")>>}}

\* the root block given by pageId, by a scan of the table, or not at all
RootTables ==
    {<<>>,
     <<[id |-> Id("t", "1"), data |-> Block("text", TitleProp(<<"W">>), <<>>)]>>,
     <<[id |-> Id("t", "1"), data |-> Block("text", TitleProp(<<"W">>), <<>>)],
       [id |-> RootId,
        data |-> Block("page", TitleProp(<<"A">>), <<Id("t", "1")>>)]>>,
     <<[id |-> Id("t", "1"), data |-> Block("text", TitleProp(<<"W">>), <<>>)],
       [id |-> RootId,
        data |-> [Block("page", TitleProp(<<"A">>), <<Id("t", "1")>>)
                     EXCEPT !.otype = "page"]]>>}

RootPayloads ==
    {Payload(pageId, blocks) :
        pageId \in {<<>>, Id("x", "x"), RootId}, blocks \in RootTables}
    \cup {NoData, [NoData EXCEPT !.hasRecordMap = TRUE]}

\* pages that hold page blocks, directly or in a toggle
LinkPayloads ==
    {FlatPage(StartId, kids) : kids \in KidLists(StartId)}
    \cup {ToggledPage(StartId, kids) :
             kids \in {ks \in KidLists(StartId) : Len(ks) = 1}}

\* a toggle, column_list or column whose content lists the block itself, and
\* a column_list whose column lists the column_list
CyclePayloads ==
    {OnePage(<<Id("g", "1")>>,
             <<[id |-> Id("g", "1"),
                data |-> Block(type, TitleProp(<<"T">>), <<Id("g", "1")>>)]>>) :
        type \in {"toggle", "column_list", "column"}}
    \cup {OnePage(<<Id("g", "1")>>,
                  <<[id |-> Id("g", "1"),
                     data |-> Block("column_list", Absent, <<Id("g", "2")>>)],
                    [id |-> Id("g", "2"),
                     data |-> Block("column", Absent,
                                    <<Id("t", "1"), Id("g", "1")>>)],
                    [id |-> Id("t", "1"),
                     data |-> Block("text", TitleProp(<<"W">>), <<>>)]>>)}

ExtractInputs ==
    TablePayloads \cup ImagePayloads \cup TypedPayloads \cup RootPayloads
    \cup LinkPayloads \cup CyclePayloads

\* the format markers of a run: the four scalar ones, a link, an unknown
\* one, a marker given as a list, and an empty list
Markers ==
    {PStr(<<"b">>), PStr(<<"i">>), PStr(<<"s">>), PStr(<<"c">>), PStr(<<"x">>),
     PList(<<PStr(<<"a">>), PStr(ImageUrl)>>), PList(<<PStr(<<"b">>)>>),
     PList(<<>>)}

FormatLists == UNION {[1..n -> Markers] : n \in 0..MaxFmts}

\* the items of a property value: a run with its formats, a run without any,
\* an empty item, an item that is a str, a run whose second element is no list
Runs ==
    {PList(<<PStr(<<"t">>), PList(f)>>) : f \in FormatLists}
    \cup {PList(<<PStr(<<"t">>)>>), PList(<<>>), PStr(<<"q">>),
          PList(<<PStr(<<"t">>), PStr(<<"b">>)>>)}

LastRuns ==
    {PList(<<PStr(<<"u">>)>>),
     PList(<<PStr(<<"u">>), PList(<<PStr(<<"i">>)>>)>>)}

FormatInputs ==
    {PNone, PList(<<>>)}
    \cup {PList(<<r>>) : r \in Runs}
    \cup {PList(<<r, l>>) : r \in Runs, l \in LastRuns}

InitRender ==
    /\ single_mode = FALSE
    /\ visited_pages = {}
    /\ page_data = <<>>
    /\ stack = <<>>
    /\ ret = RetNone
    /\ status = "idle"
    /\ err = ""
    /\ log = <<>>
    /\ files = {}
    /\ input = [op |-> "none", data |-> NoData, pv |-> PNone]
    /\ calls = 0

\* extract_page_content(url, data) is called
H_Extract ==
    /\ status = "idle"
    /\ calls < MaxCalls
    /\ \E data \in ExtractInputs :
          /\ input' = [op |-> "extract", data |-> data, pv |-> PNone]
          /\ stack' = <<ExtractFrame(StartUrl, data)>>
    /\ status' = "running"
    /\ calls' = calls + 1
    /\ ret' = RetNone
    /\ UNCHANGED <<single_mode, visited_pages, page_data, err, log, files>>

\* extract_formatted_text(property_value) is called, and returns
H_Format ==
    /\ status = "idle"
    /\ calls < MaxCalls
    /\ \E pv \in FormatInputs :
          /\ input' = [op |-> "format", data |-> NoData, pv |-> pv]
          /\ IF FormatRaises(pv)
             THEN ret' = RetNone /\ status' = "raised" /\ err' = "IndexError"
             ELSE /\ ret' = RetStr(extract_formatted_text(pv))
                  /\ UNCHANGED <<status, err>>
    /\ calls' = calls + 1
    /\ UNCHANGED <<single_mode, visited_pages, page_data, stack, log, files>>

\* the method called has returned
H_Return ==
    /\ status = "running"
    /\ input.op = "extract"
    /\ stack = <<>>
    /\ status' = "idle"
    /\ UNCHANGED <<single_mode, visited_pages, page_data, stack, ret, err, log,
                   files, input, calls>>

NextRender ==
    \/ H_Extract
    \/ H_Format
    \/ H_Return
    \/ EPC_Enter
    \/ EPC_Loop
    \/ EPC_Resume
    \/ PB_Enter
    \/ PB_Children
    \/ PB_Child

SpecRender == InitRender /\ [][NextRender]_vars

-----------------------------------------------------------------------------
(* Properties of a run *)

UrlOf(p) == SubpageUrl(TitleOf(p), p)

\* the positions of the log that hold event e
Events(e) == {n \in 1..Len(log) : log[n].e = e}

\* the urls that were fetched
Fetched == {log[n].url : n \in Events("fetch")}

\* C1: within one run no url is passed to download_page twice, whatever the
\* page graph (a subpage shared by two parents, cyclic links), and a url whose
\* fetch or extraction failed is not fetched again.
C1_FetchedAtMostOnce ==
    \A n, m \in Events("fetch") : log[n].url = log[m].url => n = m

\* C1, its case: the run is over; b and c were both fetched and both refer to
\* d, d was fetched once and later asked for again, and a failed url was asked
\* for again
C1_SharedSubpageReached ==
    /\ status = "done"
    /\ ~single_mode
    /\ {UrlOf(Pid("b")), UrlOf(Pid("c")), UrlOf(Pid("d"))} \subseteq Fetched
    /\ \E n \in Events("fetch"), m \in Events("skip") :
          n < m /\ log[n].url = UrlOf(Pid("d")) /\ log[m].url = UrlOf(Pid("d"))
    /\ \E n \in Events("failed"), m \in Events("skip") :
          n < m /\ log[n].url = log[m].url

\* the loop of a process_page activation has left no earlier subpage out
LoopComplete(frame) ==
    (frame.fn = "process_page" /\ frame.recursive /\ frame.pc \in {"loop", "sleep"})
    => \A j \in 1..(frame.i - 1) :
          (j <= Len(frame.page_content.subpages)
           /\ Has(frame.data.blocks, frame.page_content.subpages[j]))
          => LoopUrl(frame, frame.page_content.subpages[j]) \in visited_pages

\* C2: in multi-file mode a page whose fetch fails, whose payload is missing or
\* whose extraction fails returns an empty result and nothing is written for
\* it; the failure raises nothing, and the loop of every activation on the
\* stack goes on to the later subpages.
C2_FailureIsLocal ==
    ~single_mode =>
        /\ \A n \in Events("failed") :
              \A m \in Events("write") : log[m].url # log[n].url
        /\ (Len(log) > 0 /\ log[Len(log)].e = "failed")
              => (status # "raised" /\ ret = RetPages(<<>>))
        /\ status = "raised" => err \in {"OSError", "TypeError"}
        /\ \A n \in 1..Len(stack) : LoopComplete(stack[n])

\* C2, its case: the fetch of subpage b failed, its later sibling c was then
\* fetched and written, and the run is over
C2_SiblingAfterFailure ==
    /\ status = "done"
    /\ ~single_mode
    /\ \E n \in Events("failed"), m \in Events("fetch"), w \in Events("write") :
          /\ n < m /\ m < w
          /\ log[n].url = UrlOf(Pid("b"))
          /\ log[m].url = UrlOf(Pid("c"))
          /\ log[w].url = UrlOf(Pid("c"))

\* C6: in single-file mode the fetch a page block triggers runs with the
\* recursion disabled, so no fetch is triggered while that subpage is fetched
\* and extracted: every fetch is that of the start page or of one of its
\* subpages (at most two activations of process_page).
C6_InliningDepthOne ==
    single_mode => \A n \in Events("fetch") : log[n].depth <= 2

\* C8: a write failure (directory creation or file write) does not abort the
\* crawl: no run ends in the error of a write.
C8_WriteFailureHandled ==
    ~(status = "raised" /\ err = "OSError")

\* C10: in multi-file mode the delay is taken before each recursion: between
\* a fetch and the fetch before it there is a delay.
C10_DelayBeforeFetch ==
    ~single_mode =>
        \A n, m \in Events("fetch") :
            n < m => \E d \in Events("sleep") : n < d /\ d < m

RECURSIVE PagesUnder(_, _, _)
\* the page-typed blocks met while the blocks `ids` are rendered
PagesUnder(blocks, ids, fuel) ==
    IF fuel = 0 THEN {}
    ELSE UNION {IF ~Has(blocks, ids[n]) \/ ~At(blocks, ids[n]).hasValue THEN {}
                ELSE IF At(blocks, ids[n]).type = "page" THEN {ids[n]}
                ELSE IF Container(At(blocks, ids[n]))
                THEN PagesUnder(blocks, At(blocks, ids[n]).content, fuel - 1)
                ELSE {} : n \in 1..Len(ids)}

PagesRendered(data) ==
    PagesUnder(data.blocks, Inner(data.blocks, RootPageId(data)).content,
               Len(data.blocks))

\* the activation has written its file
Saved(frame) == frame.fn = "process_page" /\ frame.pc \in {"loop", "sleep"}

\* C11: in multi-file mode the start page is written to
\* {output}/{slug}/{slug}.md and every other page to
\* {dir(Q)}/{slug}/{slug}.md, Q being a written page whose rendered content
\* holds a page block for it; the file is the line "# {title}", a blank line
\* and the rendered body.
C11_LayoutFollowsParents ==
    ~single_mode =>
        \A n \in 1..Len(stack) :
            Saved(stack[n]) =>
                LET P == stack[n]
                    slug == sanitize_filename(P.page_title)
                    dir == IF n = 1 THEN OutputDir ELSE PageDir(stack[n - 1])
                IN  /\ [path |-> dir \o <<slug, slug \o <<".md">>>>,
                        content |-> <<"# ">> \o P.page_title \o NLNL
                                    \o P.page_content.content] \in files
                    /\ n > 1 =>
                          /\ Saved(stack[n - 1])
                          /\ stack[n - 1].page_content.subpages[stack[n - 1].i]
                                \in PagesRendered(stack[n - 1].data)

\* C12: on every finite set of pages, in both modes, with cyclic references
\* and shared subpages, the top-level call of process_page eventually
\* returns.
C12_TopLevelReturns == <>(status = "done")

\* C12, what holds of every run: it ends, by the return of the top-level call
\* or by an exception that leaves it (the visited set stops every cycle)
C12_RunEnds == <>(status \in {"done", "raised"})

\* how many times the heading of the page titled `title` stands in `content`
Headings(content, title) ==
    Cardinality({n \in 1..(Len(content) - 1) :
                    content[n] = "# " /\ content[n + 1] = title[1]})

\* single mode: in what was written, every subpage is inlined at most once
InlinedAtMostOnce ==
    \A f \in files : \A p \in PageIds : Headings(f.content, TitleOf(p)) <= 1

\* the process_page called for the page block on top has just returned []
\* because its url was visited or because the page failed
NothingCame ==
    /\ Len(log) > 0
    /\ log[Len(log)].e \in {"skip", "failed"}
    /\ log[Len(log)].depth = PageDepth + 1
    /\ log[Len(log)].url
          = SubpageUrl(Title(At(Top.blocks, Top.block_id)), Top.block_id)

\* C14: in single-file mode the body of a subpage url is inlined at most once
\* in the whole output; a page block whose url is already visited, or whose
\* page fails, gives no lines at all, and its id is recorded in page_data all
\* the same.
C14_InlinedOnceOrNotAtAll ==
    /\ [](single_mode => InlinedAtMostOnce)
    /\ [][At_("process_block", "inlined") =>
            /\ NothingCame => ret'.lines = <<>>
            /\ \E n \in 1..Len(page_data') : page_data'[n].id = Top.block_id]_vars

\* C14, its case: the run is over, page B is inlined in the document, and a
\* second page block for B was met when its url was already visited
C14_SecondReferenceDropped ==
    /\ single_mode
    /\ status = "done"
    /\ \E f \in files : Headings(f.content, TitleOf(Pid("b"))) = 1
    /\ \E n \in Events("skip") : log[n].url = UrlOf(Pid("b"))

-----------------------------------------------------------------------------
(* Properties of the methods *)

\* extract_page_content has returned for a payload
Extracted == status = "idle" /\ input.op = "extract"

\* extract_formatted_text has returned for a property value
Formatted == status = "idle" /\ input.op = "format"

\* C3: process_block never raises for a block whose optional fields are
\* absent or malformed (an image block with no source, with no caption).
C3_RenderNeverRaises ==
    ~(status = "raised" /\ input.op = "extract")

\* C13: rendering a page ends with process_block returning, also when the
\* content of a toggle, column_list or column lists the block itself or one
\* of its ancestors: the recursion never runs into the interpreter's limit.
C13_RenderingReturns ==
    ~(status = "raised" /\ err = "RecursionError")

\* C4: whatever was extracted before on the instance, the subpages returned
\* for a payload are exactly the page-typed blocks met while that payload was
\* rendered.
C4_SubpagesOfThisPayload ==
    (Extracted /\ ret.t = "content")
    => {ret.content.subpages[n] : n \in 1..Len(ret.content.subpages)}
       = PagesRendered(input.data)

\* C5: when pageId is absent or names no block of the table, and the table
\* holds no block of type page, extract_page_content returns the failure value.
C5_MissingRootFails ==
    (/\ Extracted
     /\ input.data.hasRecordMap /\ input.data.hasBlock
     /\ (Len(input.data.pageId) = 0 \/ ~Has(input.data.blocks, input.data.pageId))
     /\ \A n \in 1..Len(input.data.blocks) :
           /\ input.data.blocks[n].data.type # "page"
           /\ input.data.blocks[n].data.otype # "page")
    => ret.t = "none"

\* the table the claim describes: the first row found is the header, the
\* later rows are the body in their order, padded to the width of the header
ClaimTable(data) ==
    LET blocks == data.blocks
        ids == SelectSeq(At(blocks, Id("t", "b")).content,
                         LAMBDA id : Has(blocks, id))
        cells == [n \in 1..Len(ids) |->
                     RowCellsFrom(blocks, Inner(blocks, ids[n]).content, 1)]
        header == cells[1]
    IN  Join(<<Join(header, <<" | ">>),
               Join(Repeat(<<"---">>, Len(header)), <<" | ">>)>>
             \o [r \in 1..(Len(ids) - 1) |->
                   Join(cells[r + 1]
                        \o Repeat(<<>>, Len(header) - Len(cells[r + 1])),
                        <<" | ">>)],
             NL)

\* C7: a rendered table has the first row found as its header, a separator of
\* as many dash cells, and every later row as a body row in content order,
\* padded to the width of the header.
C7_FirstRowIsHeader ==
    (/\ Extracted
     /\ Has(input.data.blocks, Id("t", "b"))
     /\ ret.t = "content"
     /\ Len(ret.content.content) > 0)
    => ret.content.content = ClaimTable(input.data)

\* the place of a marker in the order bold, italic, strikethrough, code, link
Rank(fmt) ==
    IF fmt.k = "str"
    THEN CASE fmt.s = <<"b">> -> 1
           [] fmt.s = <<"i">> -> 2
           [] fmt.s = <<"s">> -> 3
           [] fmt.s = <<"c">> -> 4
           [] OTHER -> 6
    ELSE IF Len(fmt.v) > 1 /\ fmt.v[1] = PStr(<<"a">>) THEN 5 ELSE 6

RECURSIVE ByRank(_, _)
\* the markers of a list, put in that order
ByRank(formats, r) ==
    IF r > 6 THEN <<>>
    ELSE SelectSeq(formats, LAMBDA fmt : Rank(fmt) = r) \o ByRank(formats, r + 1)

\* the property value with the markers of every run listed in that order
InFixedOrder(pv) ==
    IF pv.k # "list" THEN pv
    ELSE PList([n \in 1..Len(pv.v) |->
             IF pv.v[n].k = "list" /\ Len(pv.v[n].v) > 1 /\ pv.v[n].v[2].k = "list"
             THEN PList(<<pv.v[n].v[1], PList(ByRank(pv.v[n].v[2].v, 1))>>)
             ELSE pv.v[n]])

Opening(fmt) ==
    IF fmt.k = "str"
    THEN CASE fmt.s = <<"b">> -> <<"*", "*">>
           [] fmt.s = <<"i">> -> <<"*">>
           [] fmt.s = <<"s">> -> <<"~", "~">>
           [] fmt.s = <<"c">> -> <<Tick>>
           [] OTHER -> <<>>
    ELSE IF Len(fmt.v) > 1 /\ fmt.v[1] = PStr(<<"a">>) THEN <<"[">> ELSE <<>>

Closing(fmt) ==
    IF fmt.k = "str" THEN Opening(fmt)
    ELSE IF Len(fmt.v) > 1 /\ fmt.v[1] = PStr(<<"a">>)
         THEN <<"]", "(">> \o fmt.v[2].s \o <<")">>
         ELSE <<>>

RECURSIVE Openings(_, _)
Openings(formats, n) ==
    IF n = 0 THEN <<>> ELSE Opening(formats[n]) \o Openings(formats, n - 1)

RECURSIVE Closings(_, _)
Closings(formats, n) ==
    IF n > Len(formats) THEN <<>>
    ELSE Closing(formats[n]) \o Closings(formats, n + 1)

\* a run in the listed order: the last marker listed is the outermost one
Nested(item) ==
    IF item.k # "list" \/ Len(item.v) = 0 THEN <<>>
    ELSE IF Len(item.v) > 1 /\ item.v[2].k = "list"
    THEN Openings(item.v[2].v, Len(item.v[2].v)) \o item.v[1].s
         \o Closings(item.v[2].v, 1)
    ELSE item.v[1].s

RECURSIVE NestedFrom(_, _)
NestedFrom(items, n) ==
    IF n > Len(items) THEN <<>> ELSE Nested(items[n]) \o NestedFrom(items, n + 1)

=============================================================================
